---- MODULE Spec2Model ----
(***************************************************************************)
(* Model of sophia_rs:                                                     *)
(*   - term/src/lib.rs: the generic Term<TD> enum, its ownership           *)
(*     transformations, normalization and cross-TermData equality;         *)
(*   - sophia/src/parser/rio_common.rs: the RioSource adapter that drives  *)
(*     a RIO parser into a triple/quad sink.                               *)
(*                                                                         *)
(* Texts are sequences of one-character strings.  A piece of TermData is   *)
(* a record [td, s]: td names the ownership strategy ("ref" = &str,        *)
(* "box" = Box<str>, "mown" = MownStr, "refof" = &T), s is the text.       *)
(* Option<X> is a sequence of length 0 (None) or 1 (Some).                 *)
(***************************************************************************)
EXTENDS Integers, Sequences, FiniteSets, TLC

\* ------------------------------------------------------------------ bounds
MaxLen == 2
MaxItems == 3
MaxRuns == 3

\* ------------------------------------------------------- generic helpers
None == <<>>

Some(x) == <<x>>

Alphabet == {"a", "/"}

RECURSIVE Strs(_)
Strs(n) ==
    IF n = 0 THEN {<<>>}
    ELSE LET P == Strs(n - 1)
         IN  P \cup {Append(s, c) : s \in P, c \in Alphabet}

\* ----------------------------------------------------------- TermData
TD(td, s) == [td |-> td, s |-> s]

\* T: From<U> / Into::into -- changes the ownership strategy, keeps the text
IntoRef(d) == TD("ref", d.s)

IntoBox(d) == TD("box", d.s)

IntoMown(d) == TD("mown", d.s)

\* &T: a borrow of the TermData itself
Borrow(d) == TD("refof", d.s)

\* AsRef<str>::as_ref
AsRefStr(d) == d.s

\* the conversion F handed to map / clone_map, named by its target strategy
Conv(f, d) ==
    CASE f = "ref"   -> IntoRef(d)
      [] f = "box"   -> IntoBox(d)
      [] f = "mown"  -> IntoMown(d)
      [] f = "refof" -> Borrow(d)

\* Option::map with the conversion f
OptMap(o, f) == IF o = None THEN None ELSE Some(Conv(f, o[1]))

\* ------------------------------------------ Iri / Literal / BlankNode / Variable
IriOf(ns, suffix) == [ns |-> ns, suffix |-> suffix]

Iri_value(i) == AsRefStr(i.ns) \o (IF i.suffix = None THEN <<>> ELSE AsRefStr(i.suffix[1]))

Iri_eq(a, b) == Iri_value(a) = Iri_value(b)

Iri_map(i, f) == IriOf(Conv(f, i.ns), OptMap(i.suffix, f))

IsDelim(c) == c \in {"#", "/"}

LastDelim(s) ==
    LET D == {k \in 1..Len(s) : IsDelim(s[k])}
    IN  IF D = {} THEN 0 ELSE CHOOSE k \in D : \A j \in D : j <= k

Iri_normalized(i, policy) ==
    LET full == Iri_value(i)
        pos  == LastDelim(full)
    IN  IF policy = "NoSuffix" \/ pos = 0 \/ pos = Len(full)
        THEN IriOf(TD("mown", full), None)
        ELSE IriOf(TD("mown", SubSeq(full, 1, pos)),
                   Some(TD("mown", SubSeq(full, pos + 1, Len(full)))))

LangKind(tag) == [k |-> "Lang", tag |-> tag]

DtKind(dt) == [k |-> "Dt", dt |-> dt]

LiteralOf(txt, kind) == [txt |-> txt, kind |-> kind]

Kind_map(kd, f) ==
    IF kd.k = "Lang" THEN LangKind(Conv(f, kd.tag)) ELSE DtKind(Iri_map(kd.dt, f))

Literal_map(l, f) == LiteralOf(Conv(f, l.txt), Kind_map(l.kind, f))

Literal_eq(a, b) ==
    /\ AsRefStr(a.txt) = AsRefStr(b.txt)
    /\ a.kind.k = b.kind.k
    /\ IF a.kind.k = "Lang"
       THEN AsRefStr(a.kind.tag) = AsRefStr(b.kind.tag)
       ELSE Iri_eq(a.kind.dt, b.kind.dt)

Literal_normalized(l, policy) ==
    LiteralOf(IntoMown(l.txt),
              IF l.kind.k = "Lang"
              THEN LangKind(IntoMown(l.kind.tag))
              ELSE DtKind(Iri_normalized(l.kind.dt, policy)))

BlankNodeOf(id) == [id |-> id]

BlankNode_eq(a, b) == AsRefStr(a.id) = AsRefStr(b.id)

BlankNode_map(b, f) == BlankNodeOf(Conv(f, b.id))

VariableOf(name) == [name |-> name]

Variable_eq(a, b) == AsRefStr(a.name) = AsRefStr(b.name)

Variable_map(v, f) == VariableOf(Conv(f, v.name))

\* ---------------------------------------------------------------- Term
Term(variant, p) == [variant |-> variant, p |-> p]

Variants == {"Iri", "BNode", "Literal", "Variable"}

FromIri(i) == Term("Iri", i)

FromLiteral(l) == Term("Literal", l)

FromVariable(v) == Term("Variable", v)

FromBlankNode(b) == Term("BNode", b)

\* the BNode and Variable arms exchanged
Term_map_mut(t, f) ==
    CASE t.variant = "Iri"      -> Term("Iri", Iri_map(t.p, f))
      [] t.variant = "Literal"  -> Term("Literal", Literal_map(t.p, f))
      [] t.variant = "BNode"    -> Term("Variable", VariableOf(Conv(f, t.p.id)))
      [] t.variant = "Variable" -> Term("BNode", BlankNodeOf(Conv(f, t.p.name)))

Term_map(t, f) ==
    CASE t.variant = "Iri"      -> Term("Iri", Iri_map(t.p, f))
      [] t.variant = "Literal"  -> Term("Literal", Literal_map(t.p, f))
      [] t.variant = "BNode"    -> Term("BNode", BlankNode_map(t.p, f))
      [] t.variant = "Variable" -> Term("Variable", Variable_map(t.p, f))

Term_as_ref(t) == Term_map(t, "refof")

Term_as_ref_str(t) == Term_map(t, "ref")

Term_map_into(t, f) == Term_map(t, f)

Term_clone_map(t, f) ==
    CASE t.variant = "Iri"      -> FromIri(Iri_map(t.p, f))
      [] t.variant = "BNode"    -> FromBlankNode(BlankNode_map(t.p, f))
      [] t.variant = "Literal"  -> FromLiteral(Literal_map(t.p, f))
      [] t.variant = "Variable" -> FromVariable(Variable_map(t.p, f))

Term_clone_into(t, f) == Term_clone_map(t, f)

\* the Literal arm normalizing and returning the literal's datatype
Term_normalized_mut(t, policy) ==
    CASE t.variant = "Iri"     -> FromIri(Iri_normalized(t.p, policy))
      [] t.variant = "Literal" /\ t.p.kind.k = "Dt" ->
            FromIri(Iri_normalized(t.p.kind.dt, policy))
      [] t.variant = "Literal" /\ t.p.kind.k = "Lang" ->
            FromLiteral(Literal_normalized(t.p, policy))
      [] OTHER                 -> Term_map_into(Term_as_ref_str(t), "mown")

Term_normalized(t, policy) ==
    CASE t.variant = "Iri"     -> FromIri(Iri_normalized(t.p, policy))
      [] t.variant = "Literal" -> FromLiteral(Literal_normalized(t.p, policy))
      [] OTHER                 -> Term_map_into(Term_as_ref_str(t), "mown")

\* a catch-all arm that compares the two texts instead of answering false
Term_eq_mut(t, u) ==
    CASE t.variant = "Iri" /\ u.variant = "Iri"           -> Iri_eq(t.p, u.p)
      [] t.variant = "BNode" /\ u.variant = "BNode"       -> BlankNode_eq(t.p, u.p)
      [] t.variant = "Literal" /\ u.variant = "Literal"   -> Literal_eq(t.p, u.p)
      [] t.variant = "Variable" /\ u.variant = "Variable" -> Variable_eq(t.p, u.p)
      [] t.variant = "BNode" /\ u.variant = "Variable"    -> AsRefStr(t.p.id) = AsRefStr(u.p.name)
      [] OTHER                                            -> FALSE

Term_eq(t, u) ==
    CASE t.variant = "Iri" /\ u.variant = "Iri"           -> Iri_eq(t.p, u.p)
      [] t.variant = "BNode" /\ u.variant = "BNode"       -> BlankNode_eq(t.p, u.p)
      [] t.variant = "Literal" /\ u.variant = "Literal"   -> Literal_eq(t.p, u.p)
      [] t.variant = "Variable" /\ u.variant = "Variable" -> Variable_eq(t.p, u.p)
      [] OTHER                                            -> FALSE

Term_eq_Iri(t, other) ==
    IF t.variant = "Iri" THEN Iri_eq(t.p, other) ELSE FALSE

Term_eq_Literal(t, other) ==
    IF t.variant = "Literal" THEN Literal_eq(t.p, other) ELSE FALSE

Term_eq_BlankNode(t, other) ==
    IF t.variant = "BNode" THEN BlankNode_eq(t.p, other) ELSE FALSE

Term_eq_Variable(t, other) ==
    IF t.variant = "Variable" THEN Variable_eq(t.p, other) ELSE FALSE

\* ------------------------------------------------ checked constructors
Ok(v) == [ok |-> TRUE, v |-> v]

Err(e) == [ok |-> FALSE, e |-> e]

\* Result::map(Into::into): the payload wrapped into the Term variant
MapIntoTerm(r, variant) == IF r.ok THEN Ok(Term(variant, r.v)) ELSE r

TermError(kind, txt) == [kind |-> kind, txt |-> txt]

IsValidIri(s) == \A k \in 1..Len(s) : s[k] # " "

IsValidLangTag(s) ==
    /\ Len(s) > 0
    /\ \A k \in 1..Len(s) : s[k] \in {"e", "n", "a"}

Iri_new(iri) ==
    IF IsValidIri(iri) THEN Ok(IriOf(TD("ref", iri), None))
    ELSE Err(TermError("MalformedIri", iri))

BlankNode_new(id) == Ok(BlankNodeOf(TD("ref", id)))

Literal_new_lang(txt, lang) ==
    IF IsValidLangTag(lang) THEN Ok(LiteralOf(TD("ref", txt), LangKind(TD("ref", lang))))
    ELSE Err(TermError("MalformedLangTag", lang))

Literal_new_dt(txt, dt) == LiteralOf(TD("ref", txt), DtKind(dt))

\* TryInto<Iri<T>> for Term<T>
TryIntoIri(t) ==
    IF t.variant = "Iri" THEN Ok(t.p) ELSE Err(TermError("NotAnIri", <<>>))

Term_new_iri(iri) == MapIntoTerm(Iri_new(iri), "Iri")

Term_new_bnode(id) == MapIntoTerm(BlankNode_new(id), "BNode")

Term_new_literal_lang(txt, lang) == MapIntoTerm(Literal_new_lang(txt, lang), "Literal")

Term_new_literal_dt(txt, dt) ==
    LET i == TryIntoIri(dt)
    IN  IF i.ok THEN Ok(FromLiteral(Literal_new_dt(txt, i.v))) ELSE i

\* ns::xsd::string
xsd_string ==
    FromIri(IriOf(TD("ref", <<"x", "s", "d", "#">>), Some(TD("ref", <<"s", "t", "r">>))))

\* ------------------------------------------------------ RIO model values
NamedNode(iri) == [k |-> "NamedNode", iri |-> iri]

RioBlankNode(id) == [k |-> "BlankNode", id |-> id]

Simple(value) == [k |-> "Simple", value |-> value]

LanguageTaggedString(value, language) ==
    [k |-> "LanguageTaggedString", value |-> value, language |-> language]

Typed(value, datatype) == [k |-> "Typed", value |-> value, datatype |-> NamedNode(datatype)]

rio2refterm(t) ==
    CASE t.k = "BlankNode" -> Term_new_bnode(t.id)
      [] t.k = "NamedNode" -> Term_new_iri(t.iri)
      [] t.k = "Simple"    -> Term_new_literal_dt(t.value, xsd_string)
      [] t.k = "LanguageTaggedString" -> Term_new_literal_lang(t.value, t.language)
      [] t.k = "Typed" ->
            LET d == Term_new_iri(t.datatype.iri)
            IN  IF d.ok THEN Term_new_literal_dt(t.value, d.v) ELSE d

rio2boxterm(t) ==
    LET r == rio2refterm(t)
    IN  IF r.ok THEN Ok(Term_clone_map(r.v, "box")) ELSE r

\* ------------------------------------------------------- unified errors
\* Error::from(x): the pipeline's Error built from a foreign error
Error_from(origin, e) == [kind |-> origin, payload |-> e]

\* ErrorKind::ParserError(message, location)
ParserError(message, location) ==
    [kind |-> "ParserError", payload |-> <<message, location>>]

AlreadyFailed == ParserError("This parser has already failed", "Unknown")

\* CoercedError<Error, TS::Error>: From<Error> and From<TS::Error>
CoercedFromError(e) == [slot |-> "pipeline", err |-> e]

CoercedFromSinkError(e) == [slot |-> "sink", err |-> e]

\* the value a run of in_sink returns
RunOk(outcome) == [t |-> "Ok", v |-> outcome]

RunErr(coerced) == [t |-> "Err", v |-> coerced]

\* ------------------------------------------------------------- inputs
InitErrors == {"io", "syntax"}

TxtA == <<"a">>

TxtP == <<"p">>

TxtB == <<"b">>

TxtX == <<"x">>

TxtG == <<"g">>

TxtBad == <<" ">>

Triple(s, p, o) == [subject |-> s, predicate |-> p, object |-> o]

Quad(s, p, o, g) == [subject |-> s, predicate |-> p, object |-> o, graph_name |-> g]

TripleItems ==
    { Triple(NamedNode(TxtA), NamedNode(TxtP), Simple(TxtX)),
      Triple(NamedNode(TxtA), NamedNode(TxtP), NamedNode(TxtB)),
      Triple(RioBlankNode(TxtB), NamedNode(TxtP), LanguageTaggedString(TxtX, <<"e", "n">>)),
      Triple(NamedNode(TxtBad), NamedNode(TxtP), NamedNode(TxtB)),
      Triple(NamedNode(TxtA), NamedNode(TxtBad), Typed(TxtX, TxtBad)),
      Triple(NamedNode(TxtA), NamedNode(TxtP), LanguageTaggedString(TxtX, <<"!">>)) }

QuadItems ==
    { Quad(NamedNode(TxtA), NamedNode(TxtP), Simple(TxtX), None),
      Quad(NamedNode(TxtA), NamedNode(TxtP), NamedNode(TxtB), Some(NamedNode(TxtG))),
      Quad(RioBlankNode(TxtB), NamedNode(TxtP), Typed(TxtX, TxtA), Some(RioBlankNode(TxtG))),
      Quad(NamedNode(TxtA), NamedNode(TxtP), NamedNode(TxtB), Some(NamedNode(TxtBad))),
      Quad(NamedNode(TxtA), NamedNode(TxtP), Typed(TxtX, TxtBad), None) }

RECURSIVE SeqsUpTo(_, _)
SeqsUpTo(S, n) ==
    IF n = 0 THEN {<<>>}
    ELSE LET P == SeqsUpTo(S, n - 1)
         IN  P \cup {Append(q, x) : q \in P, x \in S}

\* ------------------------------------------------------------- state
VARIABLES
    source,        \* RioSource: [tag |-> "Parser" | "Error", opt |-> Option<E>]
    kind,          \* "triple" (TriplesParser) or "quad" (QuadsParser)
    stream,        \* what the external parser will produce, in order
    cursor,        \* how many items the external parser has produced so far
    pc,            \* "idle" | "parse_all" (inside parser.parse_all) | "panicked"
    calls,         \* number of in_sink calls made on this source
    parseAllCalls, \* number of parse_all invocations on the external parser
    produced,      \* items the parser handed to the closure in the current run
    fed,           \* items passed to sink.feed in the current run
    finishes,      \* sink.finish invocations in the current run
    origin,        \* what ended the current run
    count,         \* the sink's state: number of items it accepted
    history,       \* the values returned by the in_sink calls, in order
    termA, termB, termOp, termArg, termOut   \* the term workbench (TermSpec)

pipeVars ==
    <<source, kind, stream, cursor, pc, calls, parseAllCalls, produced, fed,
      finishes, origin, count, history>>

termVars == <<termA, termB, termOp, termArg, termOut>>

vars == <<pipeVars, termVars>>

\* --------------------------------------------------------- RioSource
\* impl From<StdResult<T, E>> for RioSource<T, E>
RioSource_from(res) ==
    IF res.ok THEN [tag |-> "Parser", opt |-> None]
    ELSE [tag |-> "Error", opt |-> Some(res.e)]

\* Option::take written as a plain read: the captured error stays in place
Take_mut(opt) == [taken |-> opt, left |-> opt]

\* Option::take
Take(opt) == [taken |-> opt, left |-> None]

\* the three (or four) unwrap()ed conversions of the feed closure, in
\* evaluation order: Ok(terms) or the first failure, on which unwrap panics
RECURSIVE UnwrapAll(_)
UnwrapAll(rs) ==
    IF rs = <<>> THEN Ok(<<>>)
    ELSE IF ~Head(rs).ok THEN Head(rs)
    ELSE LET rest == UnwrapAll(Tail(rs))
         IN  IF rest.ok THEN Ok(<<Head(rs).v>> \o rest.v) ELSE rest

\* the array built object first
TripleTerms_mut(t) ==
    UnwrapAll(<<rio2refterm(t.object), rio2refterm(t.predicate), rio2refterm(t.subject)>>)

TripleTerms(t) ==
    UnwrapAll(<<rio2refterm(t.subject), rio2refterm(t.predicate), rio2refterm(t.object)>>)

QuadTerms(q) ==
    LET spo == TripleTerms(q)
    IN  IF ~spo.ok THEN spo
        ELSE IF q.graph_name # None
        THEN LET g == rio2refterm(q.graph_name[1])
             IN  IF g.ok THEN Ok(<<spo.v, Some(g.v)>>) ELSE g
        ELSE Ok(<<spo.v, None>>)

SinkError(what, at) == [what |-> what, at |-> at]

PipeIdle ==
    /\ source = [tag |-> "Error", opt |-> None]
    /\ kind = "triple"
    /\ stream = <<>>
    /\ cursor = 0
    /\ pc = "off"
    /\ calls = 0
    /\ parseAllCalls = 0
    /\ produced = <<>>
    /\ fed = <<>>
    /\ finishes = 0
    /\ origin = "none"
    /\ count = 0
    /\ history = <<>>

TermIdle ==
    /\ termA = None
    /\ termB = None
    /\ termOp = "off"
    /\ termArg = "none"
    /\ termOut = None

Init ==
    /\ \E res \in {Ok("parser")} \cup {Err(e) : e \in InitErrors} :
          /\ source = RioSource_from(res)
          /\ IF res.ok
             THEN \/ kind = "triple" /\ stream \in SeqsUpTo(TripleItems, MaxItems)
                  \/ kind = "quad" /\ stream \in SeqsUpTo(QuadItems, MaxItems)
             ELSE kind \in {"triple", "quad"} /\ stream = <<>>
    /\ cursor = 0
    /\ pc = "idle"
    /\ calls = 0
    /\ parseAllCalls = 0
    /\ produced = <<>>
    /\ fed = <<>>
    /\ finishes = 0
    /\ origin = "none"
    /\ count = 0
    /\ history = <<>>
    /\ TermIdle

\* the Error arm finishing the sink before it returns its error
InSinkError_mut ==
    /\ pc = "idle"
    /\ calls < MaxRuns
    /\ source.tag = "Error"
    /\ LET tk == Take(source.opt)
       IN  /\ source' = [source EXCEPT !.opt = tk.left]
           /\ history' = Append(history,
                 IF tk.taken # None
                 THEN RunErr(CoercedFromError(Error_from("Init", tk.taken[1])))
                 ELSE RunErr(CoercedFromError(AlreadyFailed)))
    /\ calls' = calls + 1
    /\ produced' = <<>>
    /\ fed' = <<>>
    /\ finishes' = 1
    /\ origin' = "init"
    /\ UNCHANGED <<kind, stream, cursor, pc, parseAllCalls, count, termVars>>

\* in_sink, RioSource::Error arm (TripleSource and QuadSource alike)
InSinkError ==
    /\ pc = "idle"
    /\ calls < MaxRuns
    /\ source.tag = "Error"
    /\ LET tk == Take(source.opt)
       IN  /\ source' = [source EXCEPT !.opt = tk.left]
           /\ history' = Append(history,
                 IF tk.taken # None
                 THEN RunErr(CoercedFromError(Error_from("Init", tk.taken[1])))
                 ELSE RunErr(CoercedFromError(AlreadyFailed)))
    /\ calls' = calls + 1
    /\ produced' = <<>>
    /\ fed' = <<>>
    /\ finishes' = 0
    /\ origin' = "init"
    /\ UNCHANGED <<kind, stream, cursor, pc, parseAllCalls, count, termVars>>

\* in_sink, RioSource::Parser arm: parser.parse_all(closure) is entered
InSinkParser ==
    /\ pc = "idle"
    /\ calls < MaxRuns
    /\ source.tag = "Parser"
    /\ pc' = "parse_all"
    /\ calls' = calls + 1
    /\ parseAllCalls' = parseAllCalls + 1
    /\ produced' = <<>>
    /\ fed' = <<>>
    /\ finishes' = 0
    /\ origin' = "none"
    /\ UNCHANGED <<source, kind, stream, cursor, count, history, termVars>>

\* the closure with the result of sink.feed dropped instead of returned
Closure_mut(terms) ==
    /\ cursor' = cursor + 1
    /\ produced' = Append(produced, stream[cursor + 1])
    /\ IF ~terms.ok
       THEN /\ pc' = "panicked"
            /\ origin' = "conversion"
            /\ UNCHANGED <<fed, count, history>>
       ELSE /\ fed' = Append(fed, terms.v)
            /\ \E accept \in BOOLEAN :
                  IF accept
                  THEN /\ count' = count + 1
                       /\ UNCHANGED <<pc, origin, history>>
                  ELSE /\ origin' = "feed"
                       /\ UNCHANGED <<pc, count, history>>
    /\ UNCHANGED <<source, kind, stream, calls, parseAllCalls, finishes, termVars>>

\* the closure handed to parse_all, called with the parser's next item
Closure(terms) ==
    /\ cursor' = cursor + 1
    /\ produced' = Append(produced, stream[cursor + 1])
    /\ IF ~terms.ok
       THEN \* unwrap() panics: in_sink never returns
            /\ pc' = "panicked"
            /\ origin' = "conversion"
            /\ UNCHANGED <<fed, count, history>>
       ELSE /\ fed' = Append(fed, terms.v)
            /\ \E accept \in BOOLEAN :
                  IF accept
                  THEN /\ count' = count + 1
                       /\ UNCHANGED <<pc, origin, history>>
                  ELSE \* feed fails: map_err(TS::Error::into), then `?`
                       /\ pc' = "idle"
                       /\ origin' = "feed"
                       /\ history' = Append(history,
                             RunErr(CoercedFromError(
                                 Error_from("Sink", SinkError("feed", cursor + 1)))))
                       /\ UNCHANGED count
    /\ UNCHANGED <<source, kind, stream, calls, parseAllCalls, finishes, termVars>>

TripleClosure ==
    /\ pc = "parse_all"
    /\ kind = "triple"
    /\ cursor < Len(stream)
    /\ Closure(TripleTerms(stream[cursor + 1]))

QuadClosure ==
    /\ pc = "parse_all"
    /\ kind = "quad"
    /\ cursor < Len(stream)
    /\ Closure(QuadTerms(stream[cursor + 1]))

\* the external parser fails with its own error: parse_all(..)? returns it
ParserFails ==
    /\ pc = "parse_all"
    /\ pc' = "idle"
    /\ origin' = "parser"
    /\ history' = Append(history,
          RunErr(CoercedFromError(Error_from("Parser", cursor))))
    /\ UNCHANGED <<source, kind, stream, cursor, calls, parseAllCalls, produced,
                   fed, finishes, count, termVars>>

\* parse_all returned Ok(()): Ok(sink.finish()?)
Finish ==
    /\ pc = "parse_all"
    /\ cursor = Len(stream)
    /\ pc' = "idle"
    /\ finishes' = finishes + 1
    /\ \E ok \in BOOLEAN :
          IF ok
          THEN /\ origin' = "done"
               /\ history' = Append(history, RunOk(count))
          ELSE /\ origin' = "finish"
               /\ history' = Append(history,
                     RunErr(CoercedFromSinkError(SinkError("finish", count))))
    /\ UNCHANGED <<source, kind, stream, cursor, calls, parseAllCalls, produced,
                   fed, count, termVars>>

Next ==
    \/ InSinkError
    \/ InSinkParser
    \/ TripleClosure
    \/ QuadClosure
    \/ ParserFails
    \/ Finish

Spec == Init /\ [][Next]_vars

\* ------------------------------------------------------------ helpers
Last(h) == h[Len(h)]

\* a run has ended: in_sink has returned or has unwound
RunEnded == calls > 0 /\ pc \in {"idle", "panicked"}

\* the conversions of the item at position i of the current run, spelled
\* out position by position
ItemTerms(x) ==
    IF kind = "triple"
    THEN <<rio2refterm(x.subject), rio2refterm(x.predicate), rio2refterm(x.object)>>
    ELSE <<rio2refterm(x.subject), rio2refterm(x.predicate), rio2refterm(x.object)>>
         \o (IF x.graph_name = None THEN <<>> ELSE <<rio2refterm(x.graph_name[1])>>)

FirstFailure(x) ==
    LET rs == ItemTerms(x)
        k  == CHOOSE j \in DOMAIN rs : ~rs[j].ok /\ \A m \in 1..(j - 1) : rs[m].ok
    IN  rs[k].e

\* what the sink must have been handed for item x
Expected(x) ==
    LET rs == ItemTerms(x)
    IN  IF kind = "triple" THEN <<rs[1].v, rs[2].v, rs[3].v>>
        ELSE <<<<rs[1].v, rs[2].v, rs[3].v>>,
               IF x.graph_name = None THEN None ELSE Some(rs[4].v)>>

\* ---------------------------------------------------------------- C1
\* C1: a source built from a failed initialization returns the captured
\* error e, converted into the unified error, on the first in_sink call, and
\* the fixed ParserError("This parser has already failed", Unknown) on every
\* later call; e is returned exactly once.
C1_FailedSourceReportsOnce ==
    /\ [][(source.tag = "Error" /\ calls' = calls + 1) =>
            /\ Len(history') = Len(history) + 1
            /\ source.opt # None =>
                  /\ Last(history') =
                        RunErr(CoercedFromError(Error_from("Init", source.opt[1])))
                  /\ source'.opt = None
            /\ source.opt = None =>
                  Last(history') = RunErr(CoercedFromError(AlreadyFailed))]_vars
    /\ [](source.tag = "Error" =>
            /\ (source.opt # None) <=> (history = <<>>)
            /\ Len(history) >= 1 => history[1] # RunErr(CoercedFromError(AlreadyFailed))
            /\ \A i \in 2..Len(history) :
                  history[i] = RunErr(CoercedFromError(AlreadyFailed)))

C1_Witness ==
    /\ source.tag = "Error"
    /\ Len(history) = 3
    /\ history[1] = RunErr(CoercedFromError(Error_from("Init", "io")))
    /\ history[3] = RunErr(CoercedFromError(AlreadyFailed))

\* ---------------------------------------------------------------- C2
\* C2: once an in_sink call on a Parser source has returned successfully,
\* a later call on the same source returns an error (the "already
\* exhausted" ParserError) and parse_all is not invoked again.
C2_ExhaustedAfterSuccess ==
    \A i \in 1..Len(history) :
        (source.tag = "Parser" /\ history[i].t = "Ok") =>
            /\ parseAllCalls <= i
            /\ \A j \in (i + 1)..Len(history) :
                  /\ history[j].t = "Err"
                  /\ history[j].v.slot = "pipeline"
                  /\ history[j].v.err.kind = "ParserError"

\* ---------------------------------------------------------------- C3
\* C3: every run of in_sink that has ended has exactly one result (an
\* outcome or an error); sink.finish is invoked at most once per run, and
\* exactly in the runs in which the parser ran to completion with no parser
\* error, no conversion failure and no rejected item.
C3_OneResultPerRun ==
    /\ finishes <= 1
    /\ finishes = 1 =>
          /\ origin \in {"done", "finish"}
          /\ cursor = Len(stream)
          /\ Len(fed) = Len(produced)
    /\ (RunEnded /\ origin \in {"init", "parser", "conversion", "feed"}) => finishes = 0
    /\ RunEnded =>
          /\ Len(history) = calls
          /\ Last(history).t \in {"Ok", "Err"}
          /\ Last(history).t = "Ok" <=> origin = "done"

\* ---------------------------------------------------------------- C4
\* C4: when sink.feed rejects item k, the run is over: item k is the last
\* item fed, finish is not invoked, and in_sink returns the sink's error
\* for item k converted into the unified error type.
C4_RejectAborts ==
    origin = "feed" =>
        /\ pc = "idle"
        /\ finishes = 0
        /\ Len(history) = calls
        /\ Len(fed) = Len(produced)
        /\ Last(fed) = Expected(stream[cursor])
        /\ Last(history).t = "Err"
        /\ Last(history).v.err = Error_from("Sink", SinkError("feed", cursor))

C4_Witness ==
    /\ origin = "feed"
    /\ cursor = 2
    /\ Len(stream) > cursor
    /\ Len(fed) = 2

\* ---------------------------------------------------------------- C5
\* C5: when the conversion of a node position of the parsed item fails,
\* in_sink returns that conversion error as its error result and the item
\* is not fed to the sink.
C5_ConversionErrorReturned ==
    origin = "conversion" =>
        /\ Len(fed) = Len(produced) - 1
        /\ Len(history) = calls
        /\ Last(history).t = "Err"
        /\ Last(history).v.err = Error_from("Term", FirstFailure(Last(produced)))

\* ---------------------------------------------------------------- C6
\* C6: the coerced error in_sink returns keeps the side that failed: an
\* error of the sink (feed or finish) is in the sink-native slot, an error
\* of parser initialization, of the external parser or of term conversion
\* is in the pipeline-native slot.
C6_SlotMatchesOrigin ==
    (pc = "idle" /\ Len(history) > 0 /\ Last(history).t = "Err") =>
        /\ origin \in {"feed", "finish"} => Last(history).v.slot = "sink"
        /\ origin \in {"init", "parser", "conversion"} =>
              Last(history).v.slot = "pipeline"

\* ---------------------------------------------------------------- C7
\* C7: in a run on a Parser source the sink is fed the converted items the
\* parser produced, in the parser's order, each exactly once (an item whose
\* conversion fails ends the run unfed); a successful run has fed as many
\* items as the parser produced, and a first run over the whole stream into
\* the counting sink returns the stream's length.
C7_FedInParserOrder ==
    source.tag = "Parser" =>
        /\ Len(produced) <= cursor
        /\ \A i \in 1..Len(produced) :
              produced[i] = stream[cursor - Len(produced) + i]
        /\ Len(fed) = IF origin = "conversion" THEN Len(produced) - 1 ELSE Len(produced)
        /\ \A i \in 1..Len(fed) : fed[i] = Expected(produced[i])
        /\ origin = "done" =>
              /\ Len(fed) = Len(produced)
              /\ cursor = Len(stream)
              /\ Last(history) = RunOk(count)
              /\ calls = 1 => count = Len(stream)

C7_Witness ==
    /\ origin = "done"
    /\ calls = 1
    /\ Len(stream) = 2
    /\ stream[1] # stream[2]
    /\ Last(history) = RunOk(2)

\* ------------------------------------------------------ term workbench
TDs == {"box", "ref"}

Policies == {"NoSuffix", "LastHashOrSlash"}

Iris(td) ==
    {IriOf(TD(td, ns), sfx) :
        ns \in Strs(MaxLen),
        sfx \in {None} \cup {Some(TD(td, x)) : x \in Strs(MaxLen)}}

DtIris(td) ==
    {IriOf(TD(td, ns), sfx) :
        ns \in Strs(MaxLen), sfx \in {None, Some(TD(td, <<"a">>))}}

Literals(td) ==
    {LiteralOf(TD(td, txt), kd) :
        txt \in {<<>>, <<"a">>},
        kd \in {LangKind(TD(td, tag)) : tag \in {<<"e", "n">>, <<"a">>}}
               \cup {DtKind(i) : i \in DtIris(td)}}

BlankNodes(td) == {BlankNodeOf(TD(td, x)) : x \in Strs(MaxLen)}

Variables(td) == {VariableOf(TD(td, x)) : x \in Strs(MaxLen)}

Terms(td) ==
    {FromIri(i) : i \in Iris(td)} \cup {FromLiteral(l) : l \in Literals(td)}
    \cup {FromBlankNode(b) : b \in BlankNodes(td)}
    \cup {FromVariable(v) : v \in Variables(td)}

AllTerms == UNION {Terms(td) : td \in TDs}

AllIris == UNION {Iris(td) : td \in TDs}

AllLiterals == UNION {Literals(td) : td \in TDs}

AllBlankNodes == UNION {BlankNodes(td) : td \in TDs}

AllVariables == UNION {Variables(td) : td \in TDs}

TermInit ==
    /\ PipeIdle
    /\ termA \in AllTerms
    /\ termB = None
    /\ termOp = "new"
    /\ termArg = "none"
    /\ termOut = None

TermDone(op, arg, other, out) ==
    /\ termOp' = op
    /\ termArg' = arg
    /\ termB' = other
    /\ termOut' = out
    /\ UNCHANGED <<termA, pipeVars>>

Eq ==
    /\ termOp = "new"
    /\ \E u \in AllTerms :
           TermDone("eq", "Term", u, Term_eq(termA, u))

EqIri ==
    /\ termOp = "new"
    /\ \E i \in AllIris :
           TermDone("eq", "Iri", i, Term_eq_Iri(termA, i))

EqLiteral ==
    /\ termOp = "new"
    /\ \E l \in AllLiterals :
           TermDone("eq", "Literal", l, Term_eq_Literal(termA, l))

EqBlankNode ==
    /\ termOp = "new"
    /\ \E b \in AllBlankNodes :
           TermDone("eq", "BNode", b, Term_eq_BlankNode(termA, b))

EqVariable ==
    /\ termOp = "new"
    /\ \E v \in AllVariables :
           TermDone("eq", "Variable", v, Term_eq_Variable(termA, v))

AsRef ==
    /\ termOp = "new"
    /\ TermDone("as_ref", "refof", None, Term_as_ref(termA))

AsRefStrOp ==
    /\ termOp = "new"
    /\ TermDone("as_ref_str", "ref", None, Term_as_ref_str(termA))

Map ==
    /\ termOp = "new"
    /\ \E td \in {"ref", "box", "mown"} :
           TermDone("map", td, None, Term_map(termA, td))

MapInto ==
    /\ termOp = "new"
    /\ \E td \in {"ref", "box", "mown"} :
           TermDone("map_into", td, None, Term_map_into(termA, td))

CloneMap ==
    /\ termOp = "new"
    /\ \E td \in {"ref", "box", "mown"} :
           TermDone("clone_map", td, None, Term_clone_map(termA, td))

CloneInto ==
    /\ termOp = "new"
    /\ \E td \in {"ref", "box", "mown"} :
           TermDone("clone_into", td, None, Term_clone_into(termA, td))

Normalized ==
    /\ termOp = "new"
    /\ \E policy \in Policies :
           TermDone("normalized", policy, None, Term_normalized(termA, policy))

TermNext ==
    \/ Eq
    \/ EqIri
    \/ EqLiteral
    \/ EqBlankNode
    \/ EqVariable
    \/ AsRef
    \/ AsRefStrOp
    \/ Map
    \/ MapInto
    \/ CloneMap
    \/ CloneInto
    \/ Normalized

TermSpec == TermInit /\ [][TermNext]_vars

\* ------------------------------------------------ term claim helpers
\* the text content of a payload of the given variant, strategy left out
Content(variant, p) ==
    CASE variant = "Iri"      -> <<p.ns.s \o (IF p.suffix = None THEN <<>> ELSE p.suffix[1].s)>>
      [] variant = "BNode"    -> <<p.id.s>>
      [] variant = "Variable" -> <<p.name.s>>
      [] variant = "Literal"  ->
            IF p.kind.k = "Lang" THEN <<p.txt.s, "Lang", p.kind.tag.s>>
            ELSE <<p.txt.s, "Dt",
                   p.kind.dt.ns.s \o (IF p.kind.dt.suffix = None THEN <<>>
                                      ELSE p.kind.dt.suffix[1].s)>>

\* every piece of TermData of the payload, in field order
Spans(variant, p) ==
    CASE variant = "Iri"      -> <<p.ns>> \o p.suffix
      [] variant = "BNode"    -> <<p.id>>
      [] variant = "Variable" -> <<p.name>>
      [] variant = "Literal"  ->
            IF p.kind.k = "Lang" THEN <<p.txt, p.kind.tag>>
            ELSE <<p.txt, p.kind.dt.ns>> \o p.kind.dt.suffix

\* ---------------------------------------------------------------- C8
\* C8: Term == Term is true iff the two terms have the same variant and
\* equal payload content, whatever their ownership strategies; Term == a
\* bare Iri, Literal, BlankNode or Variable is true iff the term's variant
\* is that kind and the payload contents are equal.
C8_EqIffSameVariantAndPayload ==
    termOp = "eq" =>
        IF termArg = "Term"
        THEN termOut <=> /\ termA.variant = termB.variant
                         /\ Content(termA.variant, termA.p) = Content(termB.variant, termB.p)
        ELSE termOut <=> /\ termA.variant = termArg
                         /\ Content(termArg, termA.p) = Content(termArg, termB)

C8_Witness ==
    /\ termOp = "eq"
    /\ termArg = "Term"
    /\ termOut
    /\ termA.variant = "Iri"
    /\ termA.p.ns.td # termB.p.ns.td
    /\ termA.p.suffix = None
    /\ termB.p.suffix # None
    /\ Len(termB.p.suffix[1].s) > 0

\* ---------------------------------------------------------------- C9
\* C9: map, map_into, clone_map, clone_into, as_ref and as_ref_str with a
\* content-preserving conversion return a term (never an error) of the same
\* variant, equal to the original in both directions, with every piece of
\* text unchanged and held by the target strategy.
C9_OwnershipTransformPreserves ==
    termOp \in {"map", "map_into", "clone_map", "clone_into", "as_ref", "as_ref_str"} =>
        /\ termOut.variant \in Variants
        /\ termOut.variant = termA.variant
        /\ Term_eq(termOut, termA)
        /\ Term_eq(termA, termOut)
        /\ LET a == Spans(termA.variant, termA.p)
               o == Spans(termOut.variant, termOut.p)
           IN  /\ Len(o) = Len(a)
               /\ \A k \in 1..Len(a) : o[k].s = a[k].s /\ o[k].td = termArg

C9_Witness ==
    /\ termOp = "clone_into"
    /\ termArg = "box"
    /\ termA.variant = "Literal"
    /\ termA.p.txt.td = "ref"
    /\ termA.p.kind.k = "Dt"
    /\ termA.p.kind.dt.suffix # None
    /\ termOut.p.txt.td = "box"
    /\ termOut.p.kind.dt.suffix # None

\* --------------------------------------------------------------- C10
\* C10: normalized(p) returns a term of the same variant that is equal to
\* the original; normalizing the result again with p returns the same
\* representation; a BNode or Variable comes back with its text unchanged.
C10_NormalizedEquivalentIdempotent ==
    termOp = "normalized" =>
        /\ termOut.variant = termA.variant
        /\ Term_eq(termOut, termA)
        /\ Term_eq(termA, termOut)
        /\ Term_normalized(termOut, termArg) = termOut
        /\ termA.variant \in {"BNode", "Variable"} =>
              LET a == Spans(termA.variant, termA.p)
                  o == Spans(termOut.variant, termOut.p)
              IN  Len(o) = 1 /\ o[1].s = a[1].s

C10_Witness ==
    /\ termOp = "normalized"
    /\ termArg = "LastHashOrSlash"
    /\ termA.variant = "Iri"
    /\ termA.p.suffix = None
    /\ termOut.p.suffix # None

\* --------------------------------------------------------------- C11
\* C11: driving a source that is in the failure state never invokes the
\* sink's feed or finish nor any parser: the sink's state, the parser and
\* the call counts of feed, finish and parse_all stay as they were, and the
\* source stays RioSource::Error, its only change being Error(Some(e)) to
\* Error(None) on the first drive.
C11_FailedSourceTouchesNothing ==
    /\ [][source.tag = "Error" =>
            /\ source'.tag = "Error"
            /\ count' = count
            /\ cursor' = cursor
            /\ parseAllCalls' = parseAllCalls
            /\ fed' = <<>>
            /\ finishes' = 0
            /\ pc' = "idle"
            /\ source' # source => (source.opt # None /\ source'.opt = None)]_vars
    /\ [](source.tag = "Error" =>
            /\ count = 0
            /\ cursor = 0
            /\ parseAllCalls = 0
            /\ fed = <<>>
            /\ produced = <<>>
            /\ finishes = 0
            /\ pc = "idle")

C11_Witness ==
    /\ source = [tag |-> "Error", opt |-> None]
    /\ calls = 2
    /\ Len(history) = 2
    /\ count = 0
    /\ parseAllCalls = 0
    /\ finishes = 0

====
